---- MODULE Spec2Model ----
(***************************************************************************)
(* Model of resector.RandomResection (random_resection.py) and of the      *)
(* command-line entry point main (cli.py).                                 *)
(*                                                                         *)
(* Numbers: sigmas and radii ratios are kept in tenths (0.5 is 5), volumes *)
(* and angles in units.  The process-wide torch generator is a             *)
(* deterministic generator with GenStates states; one draw reads the       *)
(* state as the fraction rng / GenStates of [0, 1) and advances it.        *)
(* Arrays are records [shape, dtype, data], data a function of the index   *)
(* tuples; SimpleITK images are records [size, pixelType, pixel, affine].  *)
(***************************************************************************)
EXTENDS Integers, Sequences, FiniteSets, TLC

VARIABLES
    pc,                 \* position of the caller / of __call__
    ctorArgs,           \* the (volumes, volumes_range) handed to __init__
    self,               \* the attributes __init__ stored
    rng,                \* state of the global torch generator
    sample,             \* the caller's sample mapping
    fromCli,            \* the transform and the sample were built by main
    callSeed,           \* generator state when __call__ was entered
    callInput,          \* the sample as it was when __call__ was entered
    resection_params,   \* local of __call__
    images,             \* brain, masks and noise converted by nib_to_sitk
    readKeys,           \* keys of the sample __call__ has subscripted
    resectArgs,         \* arguments of the last _resect invocation
    resected,           \* what _resect returned
    error,              \* exception that ended __init__ / __call__, or "none"
    last,               \* outcome of the call that is being replayed
    maskType            \* element type of the mask the compositor returns

vars == <<pc, ctorArgs, self, rng, sample, fromCli, callSeed,
          callInput, resection_params, images, readKeys, resectArgs,
          resected, error, last, maskType>>

-----------------------------------------------------------------------------
(* Bounds of the model *)

GenStates == 8

GridDim == 2

-----------------------------------------------------------------------------
(* Values that stand for Python's None and for unset locals *)

None == <<>>

NoRecord == [kind |-> "unset"]

Hemisphere == [LEFT |-> "left", RIGHT |-> "right"]

-----------------------------------------------------------------------------
(* The torch generator *)

\* the generator after one draw
advance(g) == (5 * g + 3) % GenStates

\* torch.rand(1) >= 0.5, the draw being the fraction g / GenStates
flip_coin(g) == 2 * g >= GenStates

\* uniform_ with the width of the range taken to be its upper end
uniform_scaled_by_upper(g, range) == range[1] + (g * range[2]) \div GenStates

\* torch.FloatTensor(1).uniform_(from, to): from + u * (to - from), u in [0, 1)
uniform_(g, range) == range[1] + (g * (range[2] - range[1])) \div GenStates

\* torch.randint(high, (1,)): an index in 0 .. high - 1
randint(g, high) == (g * high) \div GenStates

\* the generator after n draws
RECURSIVE advanceBy(_, _)
advanceBy(g, n) == IF n = 0 THEN g ELSE advanceBy(advance(g), n - 1)

\* torch.FloatTensor(3).uniform_(from, to).tolist(): three successive draws
uniform3_(g, range) ==
    << uniform_(g, range),
       uniform_(advance(g), range),
       uniform_(advanceBy(g, 2), range) >>

-----------------------------------------------------------------------------
(* RandomResection.get_params: the parameters and the generator it leaves *)

\* the volume draw: uniform over the range, or a uniform index into the catalog
sample_volume(g, volumes, volumes_range) ==
    IF volumes = None
    THEN uniform_(g, volumes_range)
    ELSE volumes[randint(g, Len(volumes)) + 1]

sample_hemisphere(g) ==
    IF flip_coin(g) THEN Hemisphere.LEFT ELSE Hemisphere.RIGHT

\* get_params drawing the angles before the sigmas and the radii ratio
get_params_angles_first(g, volumes, volumes_range, sigmas_range, radii_ratio_range, angles_range) ==
    [ parameters |-> [ hemisphere  |-> sample_hemisphere(g),
                       volume      |-> sample_volume(advanceBy(g, 1), volumes, volumes_range),
                       sigmas      |-> uniform3_(advanceBy(g, 5), sigmas_range),
                       radii_ratio |-> uniform_(advanceBy(g, 8), radii_ratio_range),
                       angles      |-> uniform3_(advanceBy(g, 2), angles_range) ],
      gen |-> advanceBy(g, 9) ]

get_params(g, volumes, volumes_range, sigmas_range, radii_ratio_range, angles_range) ==
    LET hemisphere  == sample_hemisphere(g)
        volume      == sample_volume(advanceBy(g, 1), volumes, volumes_range)
        sigmas      == uniform3_(advanceBy(g, 2), sigmas_range)
        radii_ratio == uniform_(advanceBy(g, 5), radii_ratio_range)
        angles      == uniform3_(advanceBy(g, 6), angles_range)
    IN  [ parameters |-> [ hemisphere  |-> hemisphere,
                           volume      |-> volume,
                           sigmas      |-> sigmas,
                           radii_ratio |-> radii_ratio,
                           angles      |-> angles ],
          gen |-> advanceBy(g, 9) ]

-----------------------------------------------------------------------------
(* numpy arrays and SimpleITK images *)

Reverse3(t) == << t[3], t[2], t[1] >>

\* the index tuples of an array of the given shape (3 or 4 axes)
Idx(shape) ==
    IF Len(shape) = 3
    THEN { <<i, j, k>> : i \in 0 .. shape[1] - 1, j \in 0 .. shape[2] - 1,
                         k \in 0 .. shape[3] - 1 }
    ELSE { <<c, i, j, k>> : c \in 0 .. shape[1] - 1, i \in 0 .. shape[2] - 1,
                            j \in 0 .. shape[3] - 1, k \in 0 .. shape[4] - 1 }

ndim(array) == Len(array.shape)

\* array[0]: the first entry along the leading axis
FirstChannel(array) ==
    [ shape |-> Tail(array.shape),
      dtype |-> array.dtype,
      data  |-> [ i \in Idx(Tail(array.shape)) |-> array.data[<<0>> \o i] ] ]

\* sitk.GetArrayFromImage: the array axes are the image axes reversed
GetArrayFromImage(image) ==
    [ shape |-> Reverse3(image.size),
      dtype |-> image.pixelType,
      data  |-> [ i \in Idx(Reverse3(image.size)) |-> image.pixel[Reverse3(i)] ] ]

\* array.transpose(2, 1, 0)
transpose210(array) ==
    [ shape |-> Reverse3(array.shape),
      dtype |-> array.dtype,
      data  |-> [ i \in Idx(Reverse3(array.shape)) |-> array.data[Reverse3(i)] ] ]

\* sitk_to_array without the transpose
sitk_to_array_untransposed(image) == GetArrayFromImage(image)

sitk_to_array(image) == transpose210(GetArrayFromImage(image))

\* array[np.newaxis, ...]
add_channels_axis(array) ==
    [ shape |-> <<1>> \o array.shape,
      dtype |-> array.dtype,
      data  |-> [ i \in Idx(<<1>> \o array.shape) |-> array.data[Tail(i)] ] ]

\* the number of bits of an integer element type, and whether it is signed
Bits(dtype) ==
    CASE dtype = "uint8"  -> 8
      [] dtype = "int8"   -> 8
      [] dtype = "uint16" -> 16
      [] dtype = "int16"  -> 16

Signed(dtype) == dtype \in {"int8", "int16"}

\* integer arithmetic of the element type: the result wraps to its width
Wrap(v, dtype) ==
    LET m == 2 ^ Bits(dtype)
        r == v % m
    IN  IF Signed(dtype) /\ r >= m \div 2 THEN r - m ELSE r

\* the complement with the operands of the subtraction exchanged
complement_reversed(foreground) ==
    [ shape |-> foreground.shape,
      dtype |-> foreground.dtype,
      data  |-> [ i \in Idx(foreground.shape) |->
                    Wrap(foreground.data[i] - 1, foreground.dtype) ] ]

\* background = 1 - foreground, in the element type of foreground
complement(foreground) ==
    [ shape |-> foreground.shape,
      dtype |-> foreground.dtype,
      data  |-> [ i \in Idx(foreground.shape) |->
                    Wrap(1 - foreground.data[i], foreground.dtype) ] ]

\* np.stack((background, foreground)): a new leading axis of length 2
stack2(a, b) ==
    [ shape |-> <<2>> \o a.shape,
      dtype |-> a.dtype,
      data  |-> [ i \in Idx(<<2>> \o a.shape) |->
                    IF i[1] = 0 THEN a.data[Tail(i)] ELSE b.data[Tail(i)] ] ]

add_background_channel(foreground) ==
    stack2(complement(foreground), foreground)

-----------------------------------------------------------------------------
(* nib_to_sitk and the compositor _resect *)

\* an image on the grid of the array, with the array's values and the affine
nib_to_sitk(array, affine) ==
    [ size      |-> array.shape,
      pixelType |-> array.dtype,
      pixel     |-> array.data,
      affine    |-> affine ]

\* position of a voxel in the scan order of the grid
Flat(size, i) == (i[1] * size[2] + i[2]) * size[3] + i[3]

\* voxels where a cavity may be centred: gray matter of the resectable region
Eligible(gray_matter_mask, resectable_hemisphere_mask) ==
    { i \in Idx(gray_matter_mask.size) :
        gray_matter_mask.pixel[i] = 1 /\ resectable_hemisphere_mask.pixel[i] = 1 }

\* the n-th voxel (from 0) of a set of voxels, in scan order
NthVoxel(size, voxels, n) ==
    CHOOSE i \in voxels :
        Cardinality({ j \in voxels : Flat(size, j) < Flat(size, i) }) = n

Abs(n) == IF n < 0 THEN 0 - n ELSE n

\* radius in voxels of a cavity of the given volume; none for a volume <= 0
Radius(volume) == IF volume <= 0 THEN 0 - 1 ELSE IF volume < 1000 THEN 0 ELSE 1

\* the hard mask: the voxels around the center, clipped to the resectable mask
Cavity(resectable_hemisphere_mask, center, volume) ==
    { i \in Idx(resectable_hemisphere_mask.size) :
        /\ resectable_hemisphere_mask.pixel[i] = 1
        /\ \A a \in 1 .. 3 : Abs(i[a] - center[a]) <= Radius(volume) }

_resect(g, brain, gray_matter_mask, resectable_hemisphere_mask, noise_image, volume, sigmas, radii_ratio, angles, maskDtype) ==
    LET eligible == Eligible(gray_matter_mask, resectable_hemisphere_mask)
        center   == NthVoxel(brain.size, eligible,
                             randint(g, Cardinality(eligible)))
        cavity   == Cavity(resectable_hemisphere_mask, center, volume)
    IN  IF eligible = {}
        THEN [ ok |-> FALSE, gen |-> g ]
        ELSE [ ok |-> TRUE,
               gen |-> advance(g),
               resected_brain |->
                   [ size      |-> brain.size,
                     pixelType |-> brain.pixelType,
                     pixel     |-> [ i \in Idx(brain.size) |->
                                       IF i \in cavity THEN noise_image.pixel[i]
                                                       ELSE brain.pixel[i] ],
                     affine    |-> brain.affine ],
               resection_mask |->
                   [ size      |-> brain.size,
                     pixelType |-> maskDtype,
                     pixel     |-> [ i \in Idx(brain.size) |->
                                       IF i \in cavity THEN 1 ELSE 0 ],
                     affine    |-> brain.affine ],
               resection_center |-> center ]

MaskTypes == {"uint8", "int8", "uint16", "int16"}

-----------------------------------------------------------------------------
(* Sample mappings *)

SetItem(mapping, key, value) ==
    [ k \in DOMAIN mapping \cup {key} |-> IF k = key THEN value ELSE mapping[k] ]

DelItem(mapping, key) ==
    [ k \in DOMAIN mapping \ {key} |-> mapping[k] ]

Restrict(mapping, keys) == [ k \in keys |-> mapping[k] ]

\* f'gray_matter_{hemisphere}' and f'resectable_{hemisphere}'
gray_matter_key(hemisphere) ==
    IF hemisphere = "left" THEN "gray_matter_left" ELSE "gray_matter_right"

\* the resectable mask looked up under the opposite hemisphere
resectable_key_opposite(hemisphere) ==
    IF hemisphere = "left" THEN "resectable_right" ELSE "resectable_left"

resectable_key(hemisphere) ==
    IF hemisphere = "left" THEN "resectable_left" ELSE "resectable_right"

\* the keys __call__ subscripts, in the order it does, for a hemisphere
SubscriptedKeys(hemisphere) ==
    << "image", "affine", gray_matter_key(hemisphere), "affine",
       resectable_key(hemisphere), "affine", "noise", "affine" >>

\* the keys the docstring of __init__ assumes, and 'affine'
InputKeys ==
    { "image", "affine", "gray_matter_left", "gray_matter_right",
      "resectable_left", "resectable_right", "noise" }

\* the deletion list without its last entry
DeletedKeys_without_noise ==
    << "gray_matter_left", "gray_matter_right",
       "resectable_left", "resectable_right" >>

\* the keys __call__ deletes when delete_keys is set, in the order it does
DeletedKeys ==
    << "gray_matter_left", "gray_matter_right",
       "resectable_left", "resectable_right", "noise" >>

Range(seq) == { seq[n] : n \in DOMAIN seq }

\* the input grids: one with two hemispheres, one with an empty right one
Shapes == { <<GridDim, GridDim, 1>>, <<1, GridDim, GridDim>> }

InLeft(shape, i) == 2 * i[1] < shape[1]

\* a binary mask that is 1 on the given voxels
BinaryMask(shape, voxels) ==
    [ shape |-> shape, dtype |-> "uint8",
      data |-> [ i \in Idx(shape) |-> IF i \in voxels THEN 1 ELSE 0 ] ]

\* a well-formed sample on the given grid: every input key, one geometry
FullSample(shape) ==
    LET left  == { i \in Idx(shape) : InLeft(shape, i) }
        right == Idx(shape) \ left
    IN  [ k \in InputKeys |->
            CASE k = "image" ->
                   [ shape |-> <<1>> \o shape, dtype |-> "float32",
                     data |-> [ i \in Idx(<<1>> \o shape) |->
                                  100 + 9 * i[2] + 3 * i[3] + i[4] ] ]
              [] k = "affine" -> [ kind |-> "affine", grid |-> shape ]
              [] k = "gray_matter_left" ->
                   BinaryMask(shape, { i \in left : i[2] = 0 })
              [] k = "gray_matter_right" ->
                   BinaryMask(shape, { i \in right : i[2] = shape[2] - 1 })
              [] k = "resectable_left"  -> BinaryMask(shape, left)
              [] k = "resectable_right" -> BinaryMask(shape, right)
              [] k = "noise" ->
                   [ shape |-> shape, dtype |-> "float32",
                     data |-> [ i \in Idx(shape) |-> 0 ] ] ]

\* the samples a caller passes: well-formed, or with one input key missing
Samples ==
    { Restrict(FullSample(shape), InputKeys \ missing) :
        shape \in Shapes,
        missing \in { m \in SUBSET InputKeys : Cardinality(m) <= 1 } }

\* the keyword names main gives the images of the torchio.Subject
SubjectKeys ==
    { "image", "resection_resectable_left", "resection_resectable_right",
      "resection_gray_matter_left", "resection_gray_matter_right",
      "resection_noise" }

\* the sample main hands to the transform: the subject's images under the
\* subject's names, with or without an 'affine' entry added by the dataset
CliSample(shape, withAffine) ==
    LET full == FullSample(shape)
        source(k) ==
            CASE k = "resection_resectable_left"   -> "resectable_left"
              [] k = "resection_resectable_right"  -> "resectable_right"
              [] k = "resection_gray_matter_left"  -> "gray_matter_left"
              [] k = "resection_gray_matter_right" -> "gray_matter_right"
              [] k = "resection_noise"             -> "noise"
              [] OTHER                             -> k
    IN  [ k \in SubjectKeys \cup (IF withAffine THEN {"affine"} ELSE {}) |->
            full[source(k)] ]

-----------------------------------------------------------------------------
(* Configurations *)

VolumeCatalogs == { None, <<50, 5000>>, <<0, 200>> }

VolumeRanges == { None, <<50, 5000>>, <<0 - 100, 100>> }

\* (sigmas_range, radii_ratio_range, angles_range): the defaults, and others
RangeProfiles ==
    { << <<5, 10>>, <<5, 15>>, <<0, 180>> >>,
      << <<1, 3>>,  <<2, 2>>,  <<0 - 90, 90>> >> }

\* the check with the 'both supplied' disjunct left out
config_error_neither_only(volumes, volumes_range) ==
    volumes = None /\ volumes_range = None

\* the condition under which __init__ raises ValueError
config_error(volumes, volumes_range) ==
    \/ volumes = None /\ volumes_range = None
    \/ volumes # None /\ volumes_range # None

-----------------------------------------------------------------------------
(* The state before anything is constructed *)

Init ==
    /\ pc = "new"
    /\ ctorArgs = NoRecord
    /\ self = NoRecord
    /\ rng \in 0 .. GenStates - 1
    /\ sample = None
    /\ fromCli = FALSE
    /\ callSeed = 0
    /\ callInput = None
    /\ resection_params = NoRecord
    /\ images = NoRecord
    /\ readKeys = {}
    /\ resectArgs = NoRecord
    /\ resected = NoRecord
    /\ error = "none"
    /\ last = NoRecord
    /\ maskType \in MaskTypes

\* RandomResection.__init__
Construct(volumes, volumes_range, sigmas_range, radii_ratio_range, angles_range, delete_keys) ==
    /\ pc = "new"
    /\ ctorArgs' = [ volumes |-> volumes, volumes_range |-> volumes_range ]
    /\ IF config_error(volumes, volumes_range)
       THEN /\ error' = "ValueError"
            /\ pc' = "init_error"
            /\ self' = self
       ELSE /\ self' = [ volumes           |-> volumes,
                         volumes_range     |-> volumes_range,
                         sigmas_range      |-> sigmas_range,
                         radii_ratio_range |-> radii_ratio_range,
                         angles_range      |-> angles_range,
                         delete_keys       |-> delete_keys ]
            /\ pc' = "ready"
            /\ error' = error
    /\ UNCHANGED <<rng, sample, fromCli, callSeed, callInput,
                   resection_params, images, readKeys, resectArgs, resected,
                   last, maskType>>

\* __call__ up to the return of get_params, entered with sample s, the
\* generator in state g and the attributes config
Enter(s, g, config) ==
    LET got == get_params(g, config.volumes, config.volumes_range,
                          config.sigmas_range, config.radii_ratio_range,
                          config.angles_range)
    IN  /\ sample' = s
        /\ callInput' = s
        /\ callSeed' = g
        /\ resection_params' = got.parameters
        /\ rng' = got.gen
        /\ images' = NoRecord
        /\ readKeys' = {}
        /\ resectArgs' = NoRecord
        /\ resected' = NoRecord
        /\ error' = "none"
        /\ pc' = "prepare"

\* a caller invokes the transform on a sample
Call(s) ==
    /\ pc \in {"ready", "returned", "raised"}
    /\ ~fromCli
    /\ Enter(s, rng, self)
    /\ last' = NoRecord
    /\ UNCHANGED <<ctorArgs, self, fromCli, maskType>>

\* a caller restores the generator state of the call that just ended and
\* invokes the transform again on an identical input sample
Replay ==
    /\ pc \in {"returned", "raised"}
    /\ ~fromCli
    /\ last = NoRecord
    /\ Enter(callInput, callSeed, self)
    /\ last' = [ seed |-> callSeed, input |-> callInput, sample |-> sample,
                 outcome |-> pc, error |-> error,
                 parameters |-> resection_params ]
    /\ UNCHANGED <<ctorArgs, self, fromCli, maskType>>

\* __call__, lines 60-67: the volumes of the sampled hemisphere are converted
Prepare ==
    /\ pc = "prepare"
    /\ LET hemisphere == resection_params.hemisphere
           keys       == SubscriptedKeys(hemisphere)
           absent     == { n \in DOMAIN keys : keys[n] \notin DOMAIN sample }
           first      == CHOOSE n \in absent : \A m \in absent : n <= m
       IN  IF absent # {}
           THEN /\ readKeys' = { keys[n] : n \in 1 .. first - 1 }
                /\ error' = "KeyError"
                /\ pc' = "raised"
                /\ images' = images
           ELSE /\ readKeys' = Range(keys)
                /\ images' =
                     [ brain |->
                         nib_to_sitk(FirstChannel(sample["image"]), sample["affine"]),
                       gray_matter_mask |->
                         nib_to_sitk(sample[gray_matter_key(hemisphere)], sample["affine"]),
                       resectable_hemisphere_mask |->
                         nib_to_sitk(sample[resectable_key(hemisphere)], sample["affine"]),
                       noise_image |->
                         nib_to_sitk(sample["noise"], sample["affine"]) ]
                /\ pc' = "resect"
                /\ error' = error
    /\ UNCHANGED <<ctorArgs, self, rng, sample, fromCli, callSeed,
                   callInput, resection_params, resectArgs, resected, last,
                   maskType>>

\* __call__, lines 72-82: the compositor is invoked
Resect ==
    /\ pc = "resect"
    /\ LET got == _resect(rng, images.brain, images.gray_matter_mask,
                          images.resectable_hemisphere_mask, images.noise_image,
                          resection_params.volume, resection_params.sigmas,
                          resection_params.radii_ratio, resection_params.angles,
                          maskType)
       IN  /\ resectArgs' =
                [ brain                      |-> images.brain,
                  gray_matter_mask           |-> images.gray_matter_mask,
                  resectable_hemisphere_mask |-> images.resectable_hemisphere_mask,
                  noise_image                |-> images.noise_image,
                  volume                     |-> resection_params.volume,
                  sigmas                     |-> resection_params.sigmas,
                  radii_ratio                |-> resection_params.radii_ratio,
                  angles                     |-> resection_params.angles ]
           /\ rng' = got.gen
           /\ IF got.ok
              THEN /\ resected' = [ resected_brain   |-> got.resected_brain,
                                    resection_mask   |-> got.resection_mask,
                                    resection_center |-> got.resection_center ]
                   /\ pc' = "update"
                   /\ error' = error
              ELSE /\ resected' = resected
                   /\ pc' = "raised"
                   /\ error' = "ResectError"
    /\ UNCHANGED <<ctorArgs, self, sample, fromCli, callSeed,
                   callInput, resection_params, images, readKeys, last,
                   maskType>>

\* resection_params['resection_center'] = resection_center
with_center(parameters, resection_center) ==
    [ hemisphere       |-> parameters.hemisphere,
      volume           |-> parameters.volume,
      sigmas           |-> parameters.sigmas,
      radii_ratio      |-> parameters.radii_ratio,
      angles           |-> parameters.angles,
      resection_center |-> resection_center ]

\* the del statements, one key after the other, up to the first absent key
RECURSIVE delete_keys_of(_, _)
delete_keys_of(mapping, keys) ==
    IF keys = <<>>
    THEN [ mapping |-> mapping, ok |-> TRUE ]
    ELSE IF Head(keys) \notin DOMAIN mapping
         THEN [ mapping |-> mapping, ok |-> FALSE ]
         ELSE delete_keys_of(DelItem(mapping, Head(keys)), Tail(keys))

\* the sample after the three assignments of lines 92-94
update_sample(mapping, parameters, image_resected, resection_label) ==
    SetItem(SetItem(SetItem(mapping, "random_resection", parameters),
                    "image", image_resected),
            "label", resection_label)

\* __call__, lines 83-106: conversion, assertions, sample update, deletion
Update ==
    /\ pc = "update"
    /\ LET parameters           == with_center(resection_params, resected.resection_center)
           resected_brain_array == sitk_to_array(resected.resected_brain)
           resected_mask_array  == sitk_to_array(resected.resection_mask)
           image_resected       == add_channels_axis(resected_brain_array)
           resection_label      == add_background_channel(resected_mask_array)
           updated == update_sample(sample, parameters, image_resected, resection_label)
           deleted == IF self.delete_keys
                      THEN delete_keys_of(updated, DeletedKeys)
                      ELSE [ mapping |-> updated, ok |-> TRUE ]
       IN  /\ resection_params' = parameters
           /\ IF ndim(image_resected) # 4 \/ ndim(resection_label) # 4
              THEN /\ sample' = sample
                   /\ error' = "AssertionError"
                   /\ pc' = "raised"
              ELSE /\ sample' = deleted.mapping
                   /\ error' = IF deleted.ok THEN error ELSE "KeyError"
                   /\ pc' = IF deleted.ok THEN "returned" ELSE "raised"
    /\ UNCHANGED <<ctorArgs, self, rng, fromCli, callSeed, callInput,
                   images, readKeys, resectArgs, resected, last, maskType>>

\* defaults of the keyword arguments of __init__
default_sigmas_range == <<5, 10>>

default_radii_ratio_range == <<5, 15>>

default_angles_range == <<0, 180>>

default_delete_keys == TRUE

\* --min-volume / --max-volume given on the command line (default 50, 5000)
CliVolumeRanges == { <<50, 5000>>, <<0, 50>> }

\* main: builds the transform with volumes_range only, builds the subject and
\* applies the transform to the dataset's sample
Main(min_volume, max_volume, shape, withAffine) ==
    /\ pc = "new"
    /\ ctorArgs' = [ volumes |-> None, volumes_range |-> <<min_volume, max_volume>> ]
    /\ self' = [ volumes           |-> None,
                 volumes_range     |-> <<min_volume, max_volume>>,
                 sigmas_range      |-> default_sigmas_range,
                 radii_ratio_range |-> default_radii_ratio_range,
                 angles_range      |-> default_angles_range,
                 delete_keys       |-> default_delete_keys ]
    /\ fromCli' = TRUE
    /\ Enter(CliSample(shape, withAffine), rng, self')
    /\ UNCHANGED <<last, maskType>>

Next ==
    \/ \E volumes \in VolumeCatalogs, volumes_range \in VolumeRanges,
          ranges \in RangeProfiles, delete_keys \in BOOLEAN :
            Construct(volumes, volumes_range, ranges[1], ranges[2], ranges[3],
                      delete_keys)
    \/ \E s \in Samples : Call(s)
    \/ Replay
    \/ Prepare
    \/ Resect
    \/ Update
    \/ \E r \in CliVolumeRanges, shape \in Shapes, withAffine \in BOOLEAN :
            Main(r[1], r[2], shape, withAffine)

Spec == Init /\ [][Next]_vars

-----------------------------------------------------------------------------
(* Properties *)

\* __call__ has passed get_params
Sampled == pc \in {"prepare", "resect", "update", "returned", "raised"}

\* exactly one of volumes and volumes_range was supplied
ExactlyOneSupplied(args) ==
    (args.volumes = None) # (args.volumes_range = None)

\* C1: the constructor succeeds if and only if exactly one of volumes and
\* volumes_range is supplied; otherwise it raises ValueError, and then the
\* generator is in the state it was in before and no attribute is stored.
C1_ConstructorChecksExclusivity ==
    [][ (pc = "new" /\ pc' # "new" /\ ~fromCli') =>
          /\ (pc' = "ready") <=> ExactlyOneSupplied(ctorArgs')
          /\ (pc' = "init_error") <=> ~ExactlyOneSupplied(ctorArgs')
          /\ pc' = "init_error" =>
                error' = "ValueError" /\ rng' = rng /\ self' = NoRecord
          /\ pc' = "ready" =>
                /\ error' = "none"
                /\ self'.volumes = ctorArgs'.volumes
                /\ self'.volumes_range = ctorArgs'.volumes_range ]_vars

C1_Witness ==
    /\ pc = "init_error"
    /\ ctorArgs.volumes # None
    /\ ctorArgs.volumes_range # None
    /\ error = "ValueError"

\* C2: whenever __call__ fails, the caller's sample has exactly the keys and
\* values it had before the call.
C2_FailedCallLeavesSampleUntouched ==
    pc = "raised" => sample = callInput

\* C3: after a successful call the label has two channels (background,
\* foreground), the foreground is the compositor's mask and is 0 or 1 in
\* every voxel, and background = 1 - foreground, for every element type.
C3_LabelIsBinaryComplement ==
    pc = "returned" =>
        LET label == sample["label"]
        IN  /\ ndim(label) = 4
            /\ label.shape[1] = 2
            /\ \A i \in Idx(Tail(label.shape)) :
                 LET background == label.data[<<0>> \o i]
                     foreground == label.data[<<1>> \o i]
                 IN  /\ foreground \in {0, 1}
                     /\ foreground = resected.resection_mask.pixel[i]
                     /\ background = 1 - foreground
                     /\ background \in {0, 1}
                     /\ background + foreground = 1

C3_Witness ==
    /\ pc = "returned"
    /\ maskType = "uint8"
    /\ \E i \in Idx(Tail(sample["label"].shape)) : sample["label"].data[<<1>> \o i] = 1
    /\ \E i \in Idx(Tail(sample["label"].shape)) : sample["label"].data[<<1>> \o i] = 0

\* C4: after a successful call the caller's mapping holds 'image', 'label'
\* and 'random_resection' (the sampled parameters plus the compositor's
\* center); with delete_keys exactly the five mask and noise keys are gone,
\* without it none is; every other key keeps its value.
C4_SampleUpdateAndFrame ==
    pc = "returned" =>
        LET written == {"image", "label", "random_resection"}
            five    == {"gray_matter_left", "gray_matter_right",
                        "resectable_left", "resectable_right", "noise"}
            meta    == sample["random_resection"]
            drawn   == get_params(callSeed, self.volumes, self.volumes_range,
                                  self.sigmas_range, self.radii_ratio_range,
                                  self.angles_range).parameters
        IN  /\ DOMAIN sample =
                 (DOMAIN callInput \cup written)
                    \ (IF self.delete_keys THEN five ELSE {})
            /\ DOMAIN meta = {"hemisphere", "volume", "sigmas", "radii_ratio",
                              "angles", "resection_center"}
            /\ meta.hemisphere = drawn.hemisphere
            /\ meta.volume = drawn.volume
            /\ meta.sigmas = drawn.sigmas
            /\ meta.radii_ratio = drawn.radii_ratio
            /\ meta.angles = drawn.angles
            /\ meta.resection_center = resected.resection_center
            /\ \A k \in DOMAIN sample \ written : sample[k] = callInput[k]

C4_Witness ==
    /\ pc = "returned"
    /\ self.delete_keys
    /\ "affine" \in DOMAIN sample
    /\ "noise" \notin DOMAIN sample
    /\ "noise" \in DOMAIN callInput

Within(value, range) == range[1] <= value /\ value <= range[2]

\* C5: every parameter get_params returns lies in its configured domain.
C5_ParametersInDomain ==
    Sampled =>
        /\ resection_params.hemisphere \in {"left", "right"}
        /\ Len(resection_params.sigmas) = 3
        /\ \A n \in 1 .. 3 : Within(resection_params.sigmas[n], self.sigmas_range)
        /\ Within(resection_params.radii_ratio, self.radii_ratio_range)
        /\ Len(resection_params.angles) = 3
        /\ \A n \in 1 .. 3 : Within(resection_params.angles[n], self.angles_range)
        /\ IF self.volumes # None
           THEN \E n \in 1 .. Len(self.volumes) :
                    resection_params.volume = self.volumes[n]
           ELSE Within(resection_params.volume, self.volumes_range)

C5_Witness ==
    /\ pc = "prepare"
    /\ resection_params.hemisphere = "right"
    /\ self.volumes # None
    /\ resection_params.volume = self.volumes[Len(self.volumes)]
    /\ resection_params.sigmas[1] # resection_params.sigmas[2]

C7_OutputOnInputGrid ==
    /\ error # "AssertionError"
    /\ pc = "returned" =>
         LET grid == Tail(callInput["image"].shape)
         IN  /\ resected.resected_brain.size = grid
             /\ sample["image"].shape = <<1>> \o grid
             /\ sample["label"].shape = <<2>> \o grid
             /\ \A i \in Idx(grid) :
                  /\ sample["image"].data[<<0>> \o i] =
                       resected.resected_brain.pixel[i]
                  /\ sample["label"].data[<<1>> \o i] =
                       resected.resection_mask.pixel[i]
                  /\ sample["label"].data[<<1>> \o i] = 0 =>
                       sample["image"].data[<<0>> \o i] =
                         callInput["image"].data[<<0>> \o i]

C7_Witness ==
    /\ pc = "returned"
    /\ Tail(callInput["image"].shape) = <<GridDim, GridDim, 1>>
    /\ sample["image"].shape = <<1, GridDim, GridDim, 1>>
    /\ sample["label"].shape = <<2, GridDim, GridDim, 1>>

\* C8: _resect is never invoked with a volume <= 0.
C8_ResectVolumePositive ==
    resectArgs # NoRecord => resectArgs.volume > 0

\* C9: the gray-matter mask and the resectable mask given to the compositor
\* are those of the sampled hemisphere (left when the draw is >= 0.5), that
\* hemisphere is the one recorded in the sample, and no key of the other
\* hemisphere is read.
C9_MasksOfSampledHemisphere ==
    Sampled =>
        LET hemisphere == resection_params.hemisphere
            left       == 2 * callSeed >= GenStates
            gm_key     == IF left THEN "gray_matter_left" ELSE "gray_matter_right"
            res_key    == IF left THEN "resectable_left" ELSE "resectable_right"
            others     == IF left THEN {"gray_matter_right", "resectable_right"}
                                  ELSE {"gray_matter_left", "resectable_left"}
        IN  /\ hemisphere = IF left THEN "left" ELSE "right"
            /\ readKeys \cap others = {}
            /\ resectArgs # NoRecord =>
                 /\ {gm_key, res_key} \subseteq readKeys
                 /\ resectArgs.gray_matter_mask.pixel = callInput[gm_key].data
                 /\ resectArgs.resectable_hemisphere_mask.pixel =
                      callInput[res_key].data
            /\ pc = "returned" =>
                 sample["random_resection"].hemisphere = hemisphere

C9_Witness ==
    /\ pc = "returned"
    /\ resection_params.hemisphere = "right"
    /\ "gray_matter_left" \in DOMAIN callInput
    /\ resectArgs.gray_matter_mask.pixel = callInput["gray_matter_right"].data
    /\ resectArgs.gray_matter_mask.pixel # callInput["gray_matter_left"].data

\* C10: the sample main passes through the transform has every key the
\* transform extracts, so the transform never fails on a missing key.
C10_CliSampleHasInputKeys ==
    fromCli =>
        /\ { "image", "resectable_left", "resectable_right",
             "gray_matter_left", "gray_matter_right", "noise" }
              \subseteq DOMAIN sample
        /\ error # "KeyError"

====
